---- MODULE Spec2Model ----
(***************************************************************************)
(* The tool-calling agent graph of src/main.py: three arithmetic tools, an *)
(* assistant node that asks the model, a prebuilt ToolNode that runs the   *)
(* requested tools, the router tools_condition, and the graph that binds   *)
(* them, run once by graph.stream on the demonstration input.              *)
(*                                                                         *)
(* The hosted model is the environment: each assistant step draws its      *)
(* answer from a small set of AI messages.  The graph engine and ToolNode  *)
(* are library code; main.py fixes how they are configured (ToolNode(tools)*)
(* and graph.stream(...) with no options), and the model follows the       *)
(* library's behaviour for exactly that configuration.                     *)
(***************************************************************************)
EXTENDS Integers, Sequences, FiniteSets, TLC

VARIABLES
    messages,            \* AgentState["messages"], the conversation state
    pc,                  \* the node (or router) the engine runs next
    step,                \* super-steps (node executions) completed so far
    error,               \* the exception that ended the run, "" if none
    handle_tool_errors,  \* whether the ToolNode build catches a tool's exception
    nextId,              \* next tool-call identifier the model client issues
    lastResult,          \* the latest integer tool result the model has read
    nAssistant,          \* executions of assistant_node, failed ones included
    nTools,              \* executions of tool_node, failed ones included
    nRouter,             \* evaluations of tools_condition
    returned,            \* messages returned so far by the executed steps
    llm_input,           \* the messages handed to the model at its last invocation
    started,             \* requests of the running tool step a worker has taken up
    finished             \* requests of the running tool step whose tool has ended

vars == <<messages, pc, step, error, handle_tool_errors, nextId, lastResult,
          nAssistant, nTools, nRouter, returned, llm_input, started, finished>>

(***************************************************************************)
(* Bounds of the exploration.                                              *)
(***************************************************************************)
\* Assistant steps whose answer is drawn from the full set Responses; later
\* steps draw from LateResponses.
MaxVaried == 2

(***************************************************************************)
(* Program constants.                                                      *)
(***************************************************************************)
\* A recursion limit two steps larger.
RecursionLimit_raised == 25 + 2

\* graph.stream is called without a config, so the engine's default
\* recursion limit bounds the super-steps of one run.
RecursionLimit == 25

START == "__start__"
END == "__end__"

(***************************************************************************)
(* Messages.                                                               *)
(***************************************************************************)
Message(type, content, tool_calls, tool_call_id, name, status) ==
    [type |-> type, content |-> content, tool_calls |-> tool_calls,
     tool_call_id |-> tool_call_id, name |-> name, status |-> status]

HumanMessage(content) == Message("human", content, <<>>, 0, "", "")

AIMessage(content, tool_calls) == Message("ai", content, tool_calls, 0, "", "")

ToolMessage(content, name, tool_call_id, status) ==
    Message("tool", content, <<>>, tool_call_id, name, status)

ToolCall(id, name, a, b) == [id |-> id, name |-> name, a |-> a, b |-> b]

\* The demonstration input of the entry point.
inputs ==
    <<HumanMessage("What is the result of multiplying 12 by 5, and then adding 15 to that?")>>

(***************************************************************************)
(* The tools.  A tool either returns a value or raises.                    *)
(***************************************************************************)
Returned(kind, num, den) == [raised |-> FALSE, kind |-> kind, num |-> num, den |-> den]

Raised == [raised |-> TRUE, kind |-> "ZeroDivisionError", num |-> 0, den |-> 1]

\* add computing the difference.
add_minus(a, b) == Returned("int", a - b, 1)

add(a, b) == Returned("int", a + b, 1)

multiply(a, b) == Returned("int", a + b, 1)

\* divide with a guard that returns 0.0 instead of raising.
divide_zero_default(a, b) ==
    IF b = 0 THEN Returned("float", 0, 1) ELSE Returned("float", a, b)

\* Python's true division: a float, or ZeroDivisionError when b = 0.
divide(a, b) == IF b = 0 THEN Raised ELSE Returned("float", a, b)

\* A registry that also holds the name subtract.
tools_with_subtract == {"add", "multiply", "divide", "subtract"}

\* tools = [add, multiply, divide]
tools == {"add", "multiply", "divide"}

(***************************************************************************)
(* ToolNode(tools): the prebuilt tool-execution node.                      *)
(***************************************************************************)
\* Decimal digits of r / b after the point, by long division (at most n).
RECURSIVE FracDigits(_, _, _)
FracDigits(r, b, n) ==
    IF r = 0 \/ n = 0 THEN ""
    ELSE ToString((r * 10) \div b) \o FracDigits((r * 10) % b, b, n - 1)

\* The text a ToolMessage carries for a tool's return value: str(17) is
\* "17", str(12 / 5) is "2.4", str(12 / 4) is "3.0".
Stringify(r) ==
    IF r.kind = "int" THEN ToString(r.num)
    ELSE ToString(r.num \div r.den) \o "." \o
         (IF r.num % r.den = 0 THEN "0" ELSE FracDigits(r.num % r.den, r.den, 16))

\* Calling the registered tool a request names.
Invoke(call) ==
    IF call.name = "add" THEN add(call.a, call.b)
    ELSE IF call.name = "multiply" THEN multiply(call.a, call.b)
    ELSE divide(call.a, call.b)

\* A request whose tool raises.
ToolRaises(call) == call.name \in tools /\ Invoke(call).raised

\* RunOne tagging its message with the identifier before the request's.
RunOne_stale_id(call) ==
    IF call.name \notin tools
    THEN ToolMessage("Error: not a valid tool", call.name, call.id - 1, "error")
    ELSE IF Invoke(call).raised
    THEN ToolMessage("Error: ZeroDivisionError", call.name, call.id - 1, "error")
    ELSE ToolMessage(Stringify(Invoke(call)), call.name, call.id - 1, "success")

\* The ToolMessage answering one request.  A name that is not registered is
\* answered with an error message; so is a tool's exception when the node
\* handles tool errors.
RunOne(call) ==
    IF call.name \notin tools
    THEN ToolMessage("Error: not a valid tool", call.name, call.id, "error")
    ELSE IF Invoke(call).raised
    THEN ToolMessage("Error: ZeroDivisionError", call.name, call.id, "error")
    ELSE ToolMessage(Stringify(Invoke(call)), call.name, call.id, "success")

\* tool_node answering only the first request.
tool_node_first(msgs) ==
    LET calls == msgs[Len(msgs)].tool_calls
    IN  IF calls = <<>> THEN <<>> ELSE <<RunOne(calls[1])>>

\* tool_node running the tools and returning no message.
tool_node_silent(msgs) == <<>>

\* tool_node returning its messages in the reverse of the listed order.
tool_node_reversed(msgs) ==
    LET calls == msgs[Len(msgs)].tool_calls
    IN  [k \in 1..Len(calls) |-> RunOne(calls[Len(calls) + 1 - k])]

\* tool_node(state): one ToolMessage per request of the latest message, in
\* the order the requests are listed.
tool_node(msgs) ==
    LET calls == msgs[Len(msgs)].tool_calls
    IN  [k \in 1..Len(calls) |-> RunOne(calls[k])]

\* The step fails as a whole when a tool raises and the node does not
\* handle tool errors.  main.py passes no handle_tool_errors to ToolNode and
\* pins no release of the library; releases differ in whether the default
\* catches a tool's own exception, so either outcome is possible and the
\* choice is fixed for a run (Init).
ToolNodeRaises(msgs, handled) ==
    LET calls == msgs[Len(msgs)].tool_calls
    IN  ~handled /\ \E k \in 1..Len(calls) : ToolRaises(calls[k])

\* The integer the model reads off the results of a tool step: the value
\* returned for the last add or multiply request, dflt when there is none.
RECURSIVE LastInt(_, _)
LastInt(calls, dflt) ==
    IF calls = <<>> THEN dflt
    ELSE LET c == calls[Len(calls)]
         IN  IF c.name \in {"add", "multiply"}
             THEN Invoke(c).num
             ELSE LastInt(SubSeq(calls, 1, Len(calls) - 1), dflt)

(***************************************************************************)
(* The model client: llm_with_tools.invoke(messages).                      *)
(***************************************************************************)
\* The request lists the model may answer with; identifiers are fresh, id is
\* the first one free, last is the latest integer result the model has read.
CallLists(id, last) ==
    { <<>>,
      <<ToolCall(id, "multiply", 12, 5)>>,
      <<ToolCall(id, "add", last, 15)>>,
      <<ToolCall(id, "divide", 12, 0)>>,
      <<ToolCall(id, "divide", 12, 5)>>,
      <<ToolCall(id, "subtract", 12, 5)>>,
      <<ToolCall(id, "multiply", 12, 5), ToolCall(id + 1, "add", 12, 15)>>,
      <<ToolCall(id, "add", 12, 5), ToolCall(id + 1, "divide", 12, 0)>> }

\* The answers of the first MaxVaried assistant steps.
Responses(id, last) ==
    { AIMessage("", calls) : calls \in CallLists(id, last) }
    \cup { AIMessage("The result is 75.", <<>>),
           AIMessage("Let me compute.", <<ToolCall(id, "multiply", 12, 5)>>) }

\* The answers of the later assistant steps.
LateResponses(id, last) ==
    { AIMessage("The result is 75.", <<>>),
      AIMessage("", <<ToolCall(id, "add", last, 15)>>) }

(***************************************************************************)
(* The graph state and its nodes.                                          *)
(***************************************************************************)
\* A reducer that replaces the list instead of extending it.
operator_add_replace(old, new) == new

\* messages: Annotated[List[BaseMessage], operator.add]
operator_add(old, new) == old \o new

\* assistant_node handing only the latest message to the model.
invoke_argument_last(msgs) == <<msgs[Len(msgs)]>>

\* What assistant_node hands to the model: state["messages"], all of it.
invoke_argument(msgs) == msgs

\* assistant_node returns {"messages": [response]}.
assistant_node(response) == <<response>>

\* tools_condition routing on the text of the message.
tools_condition_by_content(msgs) ==
    LET last_message == msgs[Len(msgs)]
    IN  IF last_message.content = "" THEN "tools" ELSE END

\* tools_condition with its two routes exchanged.
tools_condition_inverted(msgs) ==
    LET last_message == msgs[Len(msgs)]
    IN  IF Len(last_message.tool_calls) > 0 THEN END ELSE "tools"

\* tools_condition that never ends the run.
tools_condition_always_tools(msgs) == "tools"

\* tools_condition: the route chosen after the assistant node.
tools_condition(msgs) ==
    LET last_message == msgs[Len(msgs)]
    IN  IF Len(last_message.tool_calls) > 0 THEN "tools" ELSE END

Init ==
    /\ messages = inputs
    /\ pc = START
    /\ step = 0
    /\ error = ""
    /\ handle_tool_errors \in BOOLEAN
    /\ nextId = 1
    /\ lastResult = 0
    /\ nAssistant = 0
    /\ nTools = 0
    /\ nRouter = 0
    /\ returned = 0
    /\ llm_input = <<>>
    /\ started = {}
    /\ finished = {}

\* An entry edge that leads to the router instead of the assistant node.
Start_to_router ==
    /\ pc = START
    /\ pc' = "router"
    /\ UNCHANGED <<messages, step, error, handle_tool_errors, nextId, lastResult,
                   nAssistant, nTools, nRouter, returned, llm_input, started,
                   finished>>

\* builder.add_edge(START, "assistant")
Start ==
    /\ pc = START
    /\ pc' = "assistant"
    /\ UNCHANGED <<messages, step, error, handle_tool_errors, nextId, lastResult,
                   nAssistant, nTools, nRouter, returned, llm_input, started,
                   finished>>

\* The assistant node: the model is given state["messages"], answers, and
\* the answer is appended.
Assistant ==
    /\ pc = "assistant"
    /\ step < RecursionLimit
    /\ llm_input' = invoke_argument(messages)
    /\ \E response \in (IF nAssistant < MaxVaried
                        THEN Responses(nextId, lastResult)
                        ELSE LateResponses(nextId, lastResult)) :
          /\ messages' = operator_add(messages, assistant_node(response))
          /\ nextId' = nextId + Len(response.tool_calls)
          /\ returned' = returned + Len(assistant_node(response))
    /\ pc' = "router"
    /\ step' = step + 1
    /\ nAssistant' = nAssistant + 1
    /\ UNCHANGED <<error, handle_tool_errors, lastResult, nTools, nRouter, started,
                   finished>>

\* The assistant node wrapped in a retry: after a failed invocation the node
\* is due again.
AssistantFail_retry ==
    /\ pc = "assistant"
    /\ step < RecursionLimit
    /\ pc' = "assistant"
    /\ error' = "ModelError"
    /\ nAssistant' = nAssistant + 1
    /\ llm_input' = invoke_argument(messages)
    /\ UNCHANGED <<messages, step, handle_tool_errors, nextId, lastResult,
                   nTools, nRouter, returned, started, finished>>

\* The assistant node when llm_with_tools.invoke raises: nothing catches it.
AssistantFail ==
    /\ pc = "assistant"
    /\ step < RecursionLimit
    /\ pc' = "aborted"
    /\ error' = "ModelError"
    /\ nAssistant' = nAssistant + 1
    /\ llm_input' = invoke_argument(messages)
    /\ UNCHANGED <<messages, step, handle_tool_errors, nextId, lastResult,
                   nTools, nRouter, returned, started, finished>>

\* builder.add_conditional_edges("assistant", tools_condition)
Router ==
    /\ pc = "router"
    /\ pc' = tools_condition(messages)
    /\ nRouter' = nRouter + 1
    /\ UNCHANGED <<messages, step, error, handle_tool_errors, nextId, lastResult,
                   nAssistant, nTools, returned, llm_input, started, finished>>

\* The tools node with its edge leading to END.
Tools_to_end ==
    /\ pc = "tools"
    /\ step < RecursionLimit
    /\ finished = 1..Len(messages[Len(messages)].tool_calls)
    /\ ~ToolNodeRaises(messages, handle_tool_errors)
    /\ messages' = operator_add(messages, tool_node(messages))
    /\ returned' = returned + Len(tool_node(messages))
    /\ lastResult' = LastInt(messages[Len(messages)].tool_calls, lastResult)
    /\ pc' = END
    /\ step' = step + 1
    /\ nTools' = nTools + 1
    /\ started' = {}
    /\ finished' = {}
    /\ UNCHANGED <<error, handle_tool_errors, nextId, nAssistant, nRouter, llm_input>>

\* The tools node hands the requests of the latest message to a pool of
\* worker threads (executor.map): a worker takes up the next request in
\* listed order, whether or not the earlier ones have ended.
ToolStart ==
    /\ pc = "tools"
    /\ step < RecursionLimit
    /\ \E k \in 1..Len(messages[Len(messages)].tool_calls) :
          /\ k \notin started
          /\ \A j \in 1..(k - 1) : j \in started
          /\ started' = started \cup {k}
    /\ UNCHANGED <<messages, pc, step, error, handle_tool_errors, nextId, lastResult,
                   nAssistant, nTools, nRouter, returned, llm_input, finished>>

\* The tool of a request that was taken up ends (it returns or raises).
ToolFinish ==
    /\ pc = "tools"
    /\ \E k \in started \ finished : finished' = finished \cup {k}
    /\ UNCHANGED <<messages, pc, step, error, handle_tool_errors, nextId, lastResult,
                   nAssistant, nTools, nRouter, returned, llm_input, started>>

\* The tools node returns once every request has ended; then
\* builder.add_edge("tools", "assistant").
Tools ==
    /\ pc = "tools"
    /\ step < RecursionLimit
    /\ finished = 1..Len(messages[Len(messages)].tool_calls)
    /\ ~ToolNodeRaises(messages, handle_tool_errors)
    /\ messages' = operator_add(messages, tool_node(messages))
    /\ returned' = returned + Len(tool_node(messages))
    /\ lastResult' = LastInt(messages[Len(messages)].tool_calls, lastResult)
    /\ pc' = "assistant"
    /\ step' = step + 1
    /\ nTools' = nTools + 1
    /\ started' = {}
    /\ finished' = {}
    /\ UNCHANGED <<error, handle_tool_errors, nextId, nAssistant, nRouter, llm_input>>

\* The tools node when a tool's exception is not handled: the run ends with
\* the exception and no message of the step is kept.
ToolsFail ==
    /\ pc = "tools"
    /\ step < RecursionLimit
    /\ ToolNodeRaises(messages, handle_tool_errors)
    /\ started = finished
    /\ \E k \in finished : ToolRaises(messages[Len(messages)].tool_calls[k])
    /\ pc' = "aborted"
    /\ error' = "ZeroDivisionError"
    /\ nTools' = nTools + 1
    /\ started' = {}
    /\ finished' = {}
    /\ UNCHANGED <<messages, step, handle_tool_errors, nextId, lastResult,
                   nAssistant, nRouter, returned, llm_input>>

\* A node is due but the recursion limit is used up: GraphRecursionError.
OutOfSteps ==
    /\ pc \in {"assistant", "tools"}
    /\ step >= RecursionLimit
    /\ pc' = "aborted"
    /\ error' = "GraphRecursionError"
    /\ UNCHANGED <<messages, step, handle_tool_errors, nextId, lastResult,
                   nAssistant, nTools, nRouter, returned, llm_input, started,
                   finished>>

Next ==
    \/ Start
    \/ Assistant
    \/ AssistantFail
    \/ Router
    \/ ToolStart
    \/ ToolFinish
    \/ Tools
    \/ ToolsFail
    \/ OutOfSteps

Spec == Init /\ [][Next]_vars

\* graph.stream drives the graph in one thread and runs whatever is due to
\* completion: a run does not stop while a step is possible.
FairSpec == Spec /\ WF_vars(Next)

(***************************************************************************)
(* Vocabulary of the properties.                                           *)
(***************************************************************************)
IsPrefix(s, t) == Len(s) <= Len(t) /\ SubSeq(t, 1, Len(s)) = s

IsAI(i) == i \in 1..Len(messages) /\ messages[i].type = "ai"

IsTool(i) == i \in 1..Len(messages) /\ messages[i].type = "tool"

HasCalls(i) == IsAI(i) /\ Len(messages[i].tool_calls) > 0

\* Index of the first AI message after position i, Len(messages) + 1 if none.
NextAIAfter(i) ==
    IF \E j \in (i + 1)..Len(messages) : IsAI(j)
    THEN CHOOSE j \in (i + 1)..Len(messages) :
             IsAI(j) /\ \A k \in (i + 1)..(j - 1) : ~IsAI(k)
    ELSE Len(messages) + 1

\* The messages between position i and the next AI message.
BlockAfter(i) == SubSeq(messages, i + 1, NextAIAfter(i) - 1)

\* The tool step that consumed the AI message at i has completed.
ToolStepDone(i) ==
    /\ HasCalls(i)
    /\ \/ NextAIAfter(i) <= Len(messages)
       \/ pc = "assistant"
       \/ pc = "aborted" /\ error = "ModelError"

DivByZero(c) == c.name = "divide" /\ c.b = 0

\* C1: for every state whose latest message is an AI message, the router
\* returns the tools route when that message's request list is non-empty and
\* END when it is empty, whatever the text of the message and whatever the
\* earlier messages; the route the graph then takes is that result.
C1_RouterByToolCalls ==
    /\ \A i \in 1..Len(messages) : IsAI(i) =>
          LET route == tools_condition(SubSeq(messages, 1, i))
          IN  /\ Len(messages[i].tool_calls) > 0 => route = "tools"
              /\ Len(messages[i].tool_calls) = 0 => route = END
    /\ pc = "tools" => HasCalls(Len(messages))
    /\ pc = END => IsAI(Len(messages)) /\ ~HasCalls(Len(messages))

\* C1 witness: a message with text and requests was routed to the tools, and
\* a later message with neither ended the run.
C1_Witness ==
    /\ pc = END
    /\ messages[Len(messages)].content = ""
    /\ \E i \in 1..Len(messages) : HasCalls(i) /\ messages[i].content # ""

\* C2: every step leaves the earlier messages in place (the sequence before
\* the step is a prefix of the sequence after it), and the message count is
\* the initial count plus the messages returned by the executed steps.
C2_AppendOnly ==
    /\ [](Len(messages) = Len(inputs) + returned)
    /\ [][IsPrefix(messages, messages')]_vars

\* C2 witness: an assistant step, a tool step returning two messages and a
\* further assistant step have run.
C2_Witness ==
    /\ nAssistant >= 2
    /\ nTools >= 1
    /\ Len(messages) >= 5

\* C3: once the tool step has consumed an AI message carrying requests, the
\* messages right after it, up to the next AI message, are ToolMessages, as
\* many as the requests, and each request's identifier is carried by exactly
\* one of them.
C3_ToolResultPairing ==
    \A i \in 1..Len(messages) : ToolStepDone(i) =>
        LET calls == messages[i].tool_calls
            block == BlockAfter(i)
        IN  /\ Len(block) = Len(calls)
            /\ \A k \in 1..Len(block) : block[k].type = "tool"
            /\ \A c \in 1..Len(calls) :
                  Cardinality({k \in 1..Len(block) :
                                  block[k].tool_call_id = calls[c].id}) = 1

\* C3 witness: a message with two requests was consumed and the assistant
\* step ran again.
C3_Witness ==
    \E i \in 1..Len(messages) :
        /\ HasCalls(i)
        /\ Len(messages[i].tool_calls) = 2
        /\ NextAIAfter(i) <= Len(messages)

\* C4: the result the multiply tool returns for (a, b) is a * b: every
\* successful ToolMessage answering a multiply request carries the product.
C4_MultiplyIsProduct ==
    \A i \in 1..Len(messages) : IsAI(i) =>
        \A c \in 1..Len(messages[i].tool_calls) :
            LET call == messages[i].tool_calls[c]
            IN  call.name = "multiply" =>
                  \A t \in 1..Len(messages) :
                      (IsTool(t) /\ messages[t].tool_call_id = call.id
                                 /\ messages[t].status = "success")
                      => messages[t].content = ToString(call.a * call.b)

\* The demonstration run: the model asks for multiply(12, 5), then for add
\* of the result it was given and 15, then answers without requests.
DemoRun ==
    /\ pc = END
    /\ Len(messages) = 6
    /\ IsAI(2) /\ Len(messages[2].tool_calls) = 1
    /\ messages[2].tool_calls[1].name = "multiply"
    /\ messages[2].tool_calls[1].a = 12 /\ messages[2].tool_calls[1].b = 5
    /\ IsTool(3)
    /\ IsAI(4) /\ Len(messages[4].tool_calls) = 1
    /\ messages[4].tool_calls[1].name = "add"
    /\ ToString(messages[4].tool_calls[1].a) = messages[3].content
    /\ messages[4].tool_calls[1].b = 15
    /\ IsTool(5)
    /\ IsAI(6) /\ ~HasCalls(6)

\* C5: in the demonstration run the ToolMessage for the multiply request
\* carries 60 and the one for the add request carries 75, in that order,
\* and the run ends on the AI message without requests.
C5_DemoResults ==
    DemoRun =>
        /\ messages[3].tool_call_id = messages[2].tool_calls[1].id
        /\ messages[3].content = "60"
        /\ messages[5].tool_call_id = messages[4].tool_calls[1].id
        /\ messages[5].content = "75"

\* The first assistant step has answered without requests.
FirstAnswerHasNoCalls ==
    /\ Len(messages) > Len(inputs)
    /\ Len(messages[Len(inputs) + 1].tool_calls) = 0

\* C6: when the first AI message carries no request, the run is over after
\* one turn: the assistant step has run once, the tool step never, the only
\* step left is the router's move to END, and the state is the input
\* followed by that one message.
C6_ImmediateTermination ==
    FirstAnswerHasNoCalls =>
        /\ pc \in {"router", END}
        /\ nAssistant = 1
        /\ nTools = 0
        /\ nRouter = (IF pc = END THEN 1 ELSE 0)
        /\ Len(messages) = Len(inputs) + 1
        /\ IsPrefix(inputs, messages)
        /\ IsAI(Len(messages))

\* C6 witness: the run has ended after one turn.
C6_Witness == FirstAnswerHasNoCalls /\ pc = END

C8_Topology ==
    /\ pc = START
    /\ [][/\ pc = START => (pc' = "assistant" /\ nAssistant' = 0 /\ nTools' = 0)
          /\ pc = "assistant" =>
                /\ nAssistant' = nAssistant + 1
                /\ pc' \in {"router", "aborted"}
                /\ nTools' = nTools /\ nRouter' = nRouter
          /\ pc' = "router" => pc = "assistant"
          /\ nRouter' # nRouter => (pc = "router" /\ nRouter' = nRouter + 1)
          /\ pc = "router" =>
                /\ nRouter' = nRouter + 1
                /\ pc' \in {"tools", END}
                /\ nAssistant' = nAssistant /\ nTools' = nTools
          /\ pc = "tools" =>
                /\ pc' \in {"tools", "assistant", "aborted"}
                /\ pc' = "tools" => (nTools' = nTools /\ messages' = messages)
                /\ nTools' # nTools => pc' \in {"assistant", "aborted"}
                /\ nAssistant' = nAssistant /\ nRouter' = nRouter
          /\ pc' = END => pc = "router"
          /\ pc \notin {END, "aborted"}
       ]_vars

\* C8 witness: the loop went round twice and the run ended.
C8_Witness ==
    /\ pc = END
    /\ nTools >= 2
    /\ nAssistant = nTools + 1
    /\ nRouter = nAssistant

C10_ToolResultIdentifier ==
    \A t \in 1..Len(messages) : IsTool(t) =>
        \E i \in 1..(t - 1) :
            /\ IsAI(i)
            /\ \A k \in (i + 1)..(t - 1) : IsTool(k)
            /\ \E c \in 1..Len(messages[i].tool_calls) :
                  messages[i].tool_calls[c].id = messages[t].tool_call_id

\* C10 witness: ToolMessages of two different turns are in the state.
C10_Witness ==
    \E t, u \in 1..Len(messages) :
        /\ IsTool(t) /\ IsTool(u)
        /\ \E i \in (t + 1)..(u - 1) : IsAI(i)

\* C11: the result the add tool returns for (a, b) is a + b: every
\* ToolMessage answering an add request is a success carrying the sum.
C11_AddIsSum ==
    \A i \in 1..Len(messages) : IsAI(i) =>
        \A c \in 1..Len(messages[i].tool_calls) :
            LET call == messages[i].tool_calls[c]
            IN  call.name = "add" =>
                  \A t \in 1..Len(messages) :
                      (IsTool(t) /\ messages[t].tool_call_id = call.id)
                      => /\ messages[t].status = "success"
                         /\ messages[t].content = ToString(call.a + call.b)

\* C11 witness: add(17, 15) and add(12, 15) have both been answered.
C11_Witness ==
    /\ \E t \in 1..Len(messages) :
          IsTool(t) /\ messages[t].name = "add" /\ messages[t].content = "32"
    /\ \E t \in 1..Len(messages) :
          IsTool(t) /\ messages[t].name = "add" /\ messages[t].content = "27"

\* C12: every execution of the assistant step hands the model the whole
\* current message sequence, in order; when the model answers, the step
\* appends exactly one message, the AI message that is the answer, whether
\* or not it carries requests, and leaves the earlier messages as they were.
C12_AssistantStep ==
    [][nAssistant' # nAssistant =>
          /\ pc = "assistant"
          /\ nAssistant' = nAssistant + 1
          /\ llm_input' = messages
          /\ pc' = "router" =>
                /\ Len(messages') = Len(messages) + 1
                /\ SubSeq(messages', 1, Len(messages)) = messages
                /\ messages'[Len(messages')].type = "ai"
                /\ returned' = returned + 1
      ]_vars

\* C12 witness: the assistant step has appended an answer with requests and,
\* given the five messages before it, an answer without.
C12_Witness ==
    /\ pc = "router"
    /\ Len(messages) = 6
    /\ llm_input = SubSeq(messages, 1, 5)
    /\ HasCalls(2)
    /\ IsAI(6) /\ ~HasCalls(6)

UnknownTool(c) == c.name \notin {"add", "multiply", "divide"}

AIIndices == {i \in 1..Len(messages) : IsAI(i)}

\* C15: a failed model invocation aborts the run at once.  The failed step
\* appends nothing (the state is the one that was handed to the model), it
\* is the only failed invocation (no retry), and no assistant step, router
\* evaluation or tool step runs afterwards.
C15_ModelFailureFatal ==
    /\ [](error = "ModelError" =>
             /\ pc = "aborted"
             /\ messages = llm_input
             /\ nAssistant = Cardinality(AIIndices) + 1
             /\ nRouter = Cardinality(AIIndices)
             /\ started = {})
    /\ [][/\ (pc = "assistant" /\ pc' = "aborted") =>
                /\ error' = "ModelError"
                /\ messages' = messages
                /\ returned' = returned
                /\ nRouter' = nRouter
                /\ nTools' = nTools
          /\ error # "ModelError"
       ]_vars

\* C15 witness: the model failed on its second invocation, after a tool
\* step.
C15_Witness ==
    /\ error = "ModelError"
    /\ nAssistant = 2
    /\ nTools = 1

\* C16: once the model has returned an AI message without requests, and no
\* step has failed, the run reaches END at that turn: that message is the
\* first of its kind and the last of the state, only the router's decision
\* is still to come, END follows, and no step executes after END.
C16_EventualTermination ==
    /\ [](\A i \in 1..Len(messages) : (IsAI(i) /\ ~HasCalls(i)) =>
             /\ i = Len(messages)
             /\ \A j \in 1..(i - 1) : IsAI(j) => HasCalls(j)
             /\ pc \in {"router", END}
             /\ error = ""
             /\ nRouter = (IF pc = END THEN nAssistant ELSE nAssistant - 1))
    /\ (\E i \in 1..Len(messages) : IsAI(i) /\ ~HasCalls(i)) ~> (pc = END)
    /\ [][pc # END]_vars

\* C16 witness: the third answer of the model was the first without
\* requests and the run ended there.
C16_Witness ==
    /\ pc = END
    /\ nAssistant = 3
    /\ nTools = 2
    /\ ~HasCalls(Len(messages))

\* C17: whenever the router is to be evaluated the message sequence is not
\* empty and its last message is an AI message, the one the assistant step
\* that has just run appended to what it had handed to the model; the
\* router is never evaluated on a human message, a ToolMessage or an empty
\* sequence.
C17_RouterPrecondition ==
    /\ pc = "router" =>
          /\ Len(messages) > Len(inputs)
          /\ messages[Len(messages)].type = "ai"
          /\ SubSeq(messages, 1, Len(messages) - 1) = llm_input
          /\ nAssistant = nRouter + 1
          /\ error = ""
    /\ nRouter <= Cardinality(AIIndices)
    /\ nRouter > 0 => IsPrefix(inputs, messages) /\ Len(inputs) > 0

\* C17 witness: the router is due for the second time, after a tool step.
C17_Witness ==
    /\ pc = "router"
    /\ nRouter = 1
    /\ nTools = 1
    /\ IsTool(Len(messages) - 1)

\* C18: when a run has reached END, the last message is an AI message
\* without requests, every earlier AI message carries requests, and the
\* assistant step has run once more than the tool step.
C18_FinalStateShape ==
    pc = END =>
        /\ IsAI(Len(messages))
        /\ Len(messages[Len(messages)].tool_calls) = 0
        /\ \A i \in 1..(Len(messages) - 1) :
              messages[i].type = "ai" => Len(messages[i].tool_calls) > 0
        /\ nAssistant = nTools + 1
        /\ nAssistant = Cardinality(AIIndices)
        /\ error = ""

\* C18 witness: a run ended after two assistant steps and one tool step.
C18_Witness ==
    /\ pc = END
    /\ nAssistant = 2
    /\ nTools = 1

\* C19: the tool step runs only when the last message is an AI message with
\* a non-empty request list; so every tool step the loop completes appends
\* at least one ToolMessage (and nothing else), and every step the loop
\* completes, assistant or tool, leaves the conversation state strictly
\* longer.
C19_ToolStepPrecondition ==
    /\ [](pc = "tools" =>
             /\ IsAI(Len(messages))
             /\ Len(messages[Len(messages)].tool_calls) > 0)
    /\ [][/\ (pc = "tools" /\ step' # step) =>
                /\ Len(messages') >= Len(messages) + 1
                /\ Len(messages') = Len(messages) + Len(messages[Len(messages)].tool_calls)
                /\ \A t \in (Len(messages) + 1)..Len(messages') :
                      messages'[t].type = "tool"
          /\ step' # step =>
                /\ step' = step + 1
                /\ Len(messages') > Len(messages)
                /\ SubSeq(messages', 1, Len(messages)) = messages
          /\ started' # started => pc = "tools"
       ]_vars

\* C19 witness: a tool step has completed on a message with two requests
\* and the state holds the two ToolMessages after it.
C19_Witness ==
    /\ pc = "assistant"
    /\ nTools = 1
    /\ Len(messages) = 4
    /\ HasCalls(2)
    /\ IsTool(3) /\ IsTool(4)

====
